---- MODULE Spec2Model ----
(***************************************************************************)
(* Model of fetch_creds.py: five functions that read AWS / RDS credentials *)
(* from a csv file with pandas.read_csv and hand them to boto, cx_Oracle   *)
(* and sqlalchemy.                                                         *)
(*                                                                         *)
(* A text is a sequence of one-character strings.  One call runs at a      *)
(* time (the module is synchronous); pc is the statement the running call  *)
(* is at.  The statements of sql_alchemy_engine (lines 187-200) are        *)
(* modelled as the body of that function, although they are indented by    *)
(* three columns under a four-column docstring.                            *)
(***************************************************************************)
EXTENDS Integers, Sequences, FiniteSets, TLC

VARIABLES
    file,         \* what is stored at creds_path
    pc,           \* statement the running call is at; "idle" between calls
    op,           \* the function being run
    bucket_name,  \* argument of return_bucket
    df,           \* local df
    creds,        \* the tuple read from df (unpacked by the resolvers)
    cf, s3_conn, bucket,      \* locals of return_bucket
    dsn, conn, cursor,        \* locals of return_cursor
    engine_str, engine,       \* locals of sql_alchemy_engine
    result,       \* what the caller receives: a return value or an exception
    trace,        \* library calls made by the running call, in order
    raised,       \* the exception a library call or expression raised
    nextHandle,   \* identity of the next object a library constructs
    returned,     \* identities of the handles earlier calls returned
    ncalls        \* calls started so far

bucketLocals == <<cf, s3_conn, bucket>>
cursorLocals == <<dsn, conn, cursor>>
engineLocals == <<engine_str, engine>>
locals == <<df, creds, cf, s3_conn, bucket, dsn, conn, cursor, engine_str, engine>>
env == <<file, nextHandle, returned, ncalls>>
vars == <<file, pc, op, bucket_name, df, creds, cf, s3_conn, bucket, dsn, conn,
          cursor, engine_str, engine, result, trace, raised, nextHandle,
          returned, ncalls>>

(***************************************************************************)
(* Bounds                                                                  *)
(***************************************************************************)
MaxRows == 2      \* data rows of a credentials file
MaxCalls == 2     \* calls in one behaviour

(***************************************************************************)
(* Values                                                                  *)
(***************************************************************************)
None == [t |-> "None"]
Str(s) == [t |-> "str", s |-> s, n |-> 0]
Int64(n) == [t |-> "int64", s |-> <<>>, n |-> n]
Float64(n) == [t |-> "float64", s |-> <<>>, n |-> n]
NaN == [t |-> "nan", s |-> <<>>, n |-> 0]

Digits == {"0", "1", "2", "3", "4", "5", "6", "7", "8", "9"}

DigitVal(c) ==
    CASE c = "0" -> 0 [] c = "1" -> 1 [] c = "2" -> 2 [] c = "3" -> 3
      [] c = "4" -> 4 [] c = "5" -> 5 [] c = "6" -> 6 [] c = "7" -> 7
      [] c = "8" -> 8 [] c = "9" -> 9

IsDigitString(s) == Len(s) > 0 /\ \A i \in 1..Len(s) : s[i] \in Digits

RECURSIVE ToInt(_)
ToInt(s) ==
    IF s = <<>> THEN 0
    ELSE 10 * ToInt(SubSeq(s, 1, Len(s) - 1)) + DigitVal(s[Len(s)])

(***************************************************************************)
(* The credentials file                                                    *)
(***************************************************************************)
AwsColumns == <<"ACCESS_KEY_ID", "SECRET_ACCESS_KEY">>
RdsColumns == <<"DB_USER", "DB_PASSWD", "DB_HOST", "DB_PORT", "DB_SID">>
AllColumns == AwsColumns \o RdsColumns

Range(s) == {s[i] : i \in 1..Len(s)}

IndexOf(s, x) == CHOOSE i \in 1..Len(s) : s[i] = x

NoFile == [exists |-> FALSE, header |-> <<>>, rows |-> <<>>]

\* the text a column holds unless the file varies it
DefaultText(col) ==
    CASE col = "ACCESS_KEY_ID" -> <<"K">>
      [] col = "SECRET_ACCESS_KEY" -> <<"x">>
      [] col = "DB_USER" -> <<"u">>
      [] col = "DB_PASSWD" -> <<"p">>
      [] col = "DB_HOST" -> <<"h">>
      [] col = "DB_PORT" -> <<"1", "5", "2", "1">>
      [] col = "DB_SID" -> <<"s">>

\* field texts a file may hold in its varied column: a text with an upper-case
\* letter and a trailing blank, a digit string with a leading zero, an empty field
FieldTexts == {<<"A", "b", " ">>, <<"0", "7">>, <<>>}

Without(s, x) == SelectSeq(s, LAMBDA y : y # x)

MkFile(missing, n, col, vals) ==
    LET header == Without(AllColumns, missing)
    IN  [exists |-> TRUE,
         header |-> header,
         rows |-> [r \in 1..n |->
                     [j \in 1..Len(header) |->
                        IF header[j] = col THEN vals[r]
                        ELSE DefaultText(header[j])]]]

FilesVarying(n, col) ==
    {MkFile(missing, n, col, vals) :
        missing \in Range(AllColumns) \cup {"-"},
        vals \in [1..n -> FieldTexts \cup {DefaultText(col)}]}

Files ==
    UNION {FilesVarying(n, col) : n \in 0..MaxRows, col \in Range(AllColumns)}

(***************************************************************************)
(* pandas.read_csv: the first line is the header; every column gets one    *)
(* dtype, inferred from all of its fields.                                 *)
(***************************************************************************)
IsNA(s) == s = <<>>

InferColumn(cells) ==
    LET n == Len(cells)
        present == {i \in 1..n : ~IsNA(cells[i])}
        allInt == \A i \in present : IsDigitString(cells[i])
    IN  IF n = 0 THEN <<>>
        ELSE IF allInt /\ present = 1..n
             THEN [i \in 1..n |-> Int64(ToInt(cells[i]))]
        ELSE IF allInt
             THEN [i \in 1..n |->
                     IF IsNA(cells[i]) THEN NaN ELSE Float64(ToInt(cells[i]))]
        ELSE [i \in 1..n |-> IF IsNA(cells[i]) THEN NaN ELSE Str(cells[i])]

read_csv(f) ==
    [t |-> "DataFrame",
     columns |-> f.header,
     data |-> [j \in 1..Len(f.header) |->
                 InferColumn([r \in 1..Len(f.rows) |-> f.rows[r][j]])]]

(***************************************************************************)
(* df[col][0], for the columns of one extractor in source order            *)
(***************************************************************************)
Err(e, arg) == [e |-> e, arg |-> arg]
NoErr == Err("-", "-")

HasColumn(d, col) == col \in Range(d.columns)
Column(d, col) == d.data[IndexOf(d.columns, col)]

\* variant: a missing label yields an empty string, as dict.get(col, '') would
Lookup_Default(d, col, rowErr) ==
    IF ~HasColumn(d, col)
    THEN [ok |-> TRUE, err |-> NoErr, v |-> Str(<<>>)]
    ELSE IF Len(Column(d, col)) = 0
    THEN [ok |-> FALSE, err |-> Err(rowErr, "0"), v |-> None]
    ELSE [ok |-> TRUE, err |-> NoErr, v |-> Column(d, col)[1]]

\* df[col][0]: a missing label raises KeyError(col); label 0 of an empty column
\* raises rowErr (KeyError or IndexError, by pandas version)
Lookup(d, col, rowErr) ==
    IF ~HasColumn(d, col)
    THEN [ok |-> FALSE, err |-> Err("KeyError", col), v |-> None]
    ELSE IF Len(Column(d, col)) = 0
    THEN [ok |-> FALSE, err |-> Err(rowErr, "0"), v |-> None]
    ELSE [ok |-> TRUE, err |-> NoErr, v |-> Column(d, col)[1]]

\* the lookups of one extractor, in source order
Lookups(d, cols, rowErr) == [i \in 1..Len(cols) |-> Lookup(d, cols[i], rowErr)]

Failing(ls) == {i \in 1..Len(ls) : ~ls[i].ok}

FirstFailing(ls) == CHOOSE i \in Failing(ls) : \A j \in Failing(ls) : i <= j

\* the tuple of first-row values
FirstRow(ls) == [i \in 1..Len(ls) |-> ls[i].v]

ColumnsOf(o) ==
    IF o \in {"return_aws_keys", "return_bucket"} THEN AwsColumns ELSE RdsColumns

(***************************************************************************)
(* Exceptions leave the function through no handler                        *)
(***************************************************************************)
\* variant: an except clause swallows the exception and None is returned
Propagate_Swallow(err) == [t |-> "return", e |-> NoErr, v |-> None]

Propagate(err) == [t |-> "raise", e |-> err, v |-> None]
Return(v) == [t |-> "return", e |-> NoErr, v |-> v]
NoResult == [t |-> "None", e |-> NoErr, v |-> None]

\* an object a library constructs
\* variant: a path that names no file reads as an empty table
Readable_Always(f) == TRUE

\* a path names a file that can be opened
Readable(f) == f.exists

\* variant: the engine is created before the file is read
FirstStep_ConnectFirst(o) ==
    IF o = "sql_alchemy_engine" THEN "create_engine" ELSE "read_csv"

\* the first statement of every function reads the file
FirstStep(o) == "read_csv"

\* variant: return_bucket connects without building the calling format
AfterExtract_SkipCallingFormat(o) ==
    CASE o \in {"return_aws_keys", "return_rds_vars"} -> "return"
      [] o = "return_bucket" -> "connect_s3"
      [] o = "return_cursor" -> "makedsn"
      [] o = "sql_alchemy_engine" -> "engine_str"

\* the statement that follows the extraction of the credentials
AfterExtract(o) ==
    CASE o \in {"return_aws_keys", "return_rds_vars"} -> "return"
      [] o = "return_bucket" -> "calling_format"
      [] o = "return_cursor" -> "makedsn"
      [] o = "sql_alchemy_engine" -> "engine_str"

NoRaise == [err |-> NoErr, at |-> "-"]

\* variant: one module-level object is handed out again and again
NewObject_Shared(kind, id, args) == [t |-> kind, id |-> 1, args |-> args]

NewObject(kind, id, args) == [t |-> kind, id |-> id, args |-> args]

Extractors == {"return_aws_keys", "return_rds_vars"}
Resolvers == {"return_bucket", "return_cursor", "sql_alchemy_engine"}
Operations == Extractors \cup Resolvers
BucketNames == {"b1"}

RowErrors == {"KeyError", "IndexError"}

TypeOK ==
    /\ pc \in {"idle", "read_csv", "extract", "calling_format", "connect_s3",
               "get_bucket", "makedsn", "connect", "cursor", "engine_str",
               "create_engine", "return", "done"}
    /\ op \in Operations \cup {"-"}
    /\ ncalls \in 0..MaxCalls
    /\ nextHandle \in 1..(2 * MaxCalls + 1)
    /\ returned \subseteq 1..(2 * MaxCalls)
    /\ result.t \in {"None", "return", "raise"}

Init ==
    /\ file \in Files \cup {NoFile}
    /\ pc = "idle"
    /\ op = "-"
    /\ bucket_name = "-"
    /\ df = None /\ creds = None
    /\ cf = None /\ s3_conn = None /\ bucket = None
    /\ dsn = None /\ conn = None /\ cursor = None
    /\ engine_str = None /\ engine = None
    /\ result = NoResult
    /\ trace = <<>>
    /\ raised = NoRaise
    /\ nextHandle = 1
    /\ returned = {}
    /\ ncalls = 0

FreshFrame ==
    /\ df' = None /\ creds' = None
    /\ cf' = None /\ s3_conn' = None /\ bucket' = None
    /\ dsn' = None /\ conn' = None /\ cursor' = None
    /\ engine_str' = None /\ engine' = None

\* a statement raises: the frame is left and the caller gets the exception
Raise(step, err) ==
    /\ pc' = "done"
    /\ result' = Propagate(err)
    /\ raised' = [err |-> err, at |-> step]
    /\ trace' = Append(trace, step)
    /\ FreshFrame
    /\ UNCHANGED <<op, bucket_name, env>>

\* the caller invokes one of the five functions
Call ==
    /\ pc = "idle"
    /\ ncalls < MaxCalls
    /\ \E o \in Operations :
          /\ op' = o
          /\ bucket_name' \in (IF o = "return_bucket" THEN BucketNames ELSE {"-"})
    /\ pc' = FirstStep(op')
    /\ ncalls' = ncalls + 1
    /\ result' = NoResult
    /\ trace' = <<>>
    /\ raised' = NoRaise
    /\ FreshFrame
    /\ UNCHANGED <<file, nextHandle, returned>>

\* df = pandas.read_csv(creds_path)
ReadCsv ==
    /\ pc = "read_csv"
    /\ IF ~Readable(file)
       THEN Raise("read_csv", Err("IOError", "creds_path"))
       ELSE /\ df' = read_csv(file)
            /\ pc' = "extract"
            /\ trace' = Append(trace, "read_csv")
            /\ UNCHANGED <<op, bucket_name, creds, bucketLocals, cursorLocals,
                           engineLocals, result, raised, env>>

\* the df[...][0] lookups and the return of the extractor
Extract ==
    /\ pc = "extract"
    /\ \E rowErr \in RowErrors :
          LET ls == Lookups(df, ColumnsOf(op), rowErr)
          IN  IF Failing(ls) # {}
              THEN Raise("extract", ls[FirstFailing(ls)].err)
              ELSE /\ creds' = FirstRow(ls)
                   /\ pc' = AfterExtract(op)
                   /\ trace' = Append(trace, "extract")
                   /\ UNCHANGED <<op, bucket_name, df, bucketLocals, cursorLocals,
                                  engineLocals, result, raised, env>>

\* cf = boto.s3.connection.OrdinaryCallingFormat()
CallingFormat ==
    /\ pc = "calling_format"
    /\ cf' = [t |-> "OrdinaryCallingFormat"]
    /\ pc' = "connect_s3"
    /\ trace' = Append(trace, "OrdinaryCallingFormat")
    /\ UNCHANGED <<op, bucket_name, df, creds, s3_conn, bucket, cursorLocals,
                   engineLocals, result, raised, env>>

\* s3_conn = boto.connect_s3(aws_access_key_id, aws_secret_access_key, calling_format=cf)
ConnectS3 ==
    /\ pc = "connect_s3"
    /\ \/ Raise("connect_s3", Err("NoAuthHandlerFound", "boto"))
       \/ /\ s3_conn' = NewObject("S3Connection", nextHandle, <<creds[1], creds[2]>>)
          /\ nextHandle' = nextHandle + 1
          /\ pc' = "get_bucket"
          /\ trace' = Append(trace, "connect_s3")
          /\ UNCHANGED <<op, bucket_name, df, creds, cf, bucket, cursorLocals,
                         engineLocals, result, raised, file, returned, ncalls>>

\* bucket = s3_conn.get_bucket(bucket_name)
GetBucket ==
    /\ pc = "get_bucket"
    /\ \/ Raise("get_bucket", Err("S3ResponseError", bucket_name))
       \/ /\ bucket' = NewObject("Bucket", nextHandle, s3_conn.args)
          /\ nextHandle' = nextHandle + 1
          /\ pc' = "return"
          /\ trace' = Append(trace, "get_bucket")
          /\ UNCHANGED <<op, bucket_name, df, creds, cf, s3_conn, cursorLocals,
                         engineLocals, result, raised, file, returned, ncalls>>

\* dsn = cx_Oracle.makedsn(host, port, sid)
MakeDsn ==
    /\ pc = "makedsn"
    /\ \/ Raise("makedsn", Err("TypeError", "makedsn"))
       \/ /\ dsn' = [t |-> "dsn", host |-> creds[3], port |-> creds[4], sid |-> creds[5]]
          /\ pc' = "connect"
          /\ trace' = Append(trace, "makedsn")
          /\ UNCHANGED <<op, bucket_name, df, creds, bucketLocals, conn, cursor,
                         engineLocals, result, raised, env>>

\* conn = cx_Oracle.connect(user, passwd, dsn)
Connect ==
    /\ pc = "connect"
    /\ \/ Raise("connect", Err("DatabaseError", "connect"))
       \/ /\ conn' = NewObject("Connection", nextHandle,
                               <<creds[1], creds[2], dsn.host, dsn.port, dsn.sid>>)
          /\ nextHandle' = nextHandle + 1
          /\ pc' = "cursor"
          /\ trace' = Append(trace, "connect")
          /\ UNCHANGED <<op, bucket_name, df, creds, bucketLocals, dsn, cursor,
                         engineLocals, result, raised, file, returned, ncalls>>

\* cursor = conn.cursor()
Cursor ==
    /\ pc = "cursor"
    /\ \/ Raise("cursor", Err("DatabaseError", "cursor"))
       \/ /\ cursor' = NewObject("Cursor", nextHandle, conn.args)
          /\ nextHandle' = nextHandle + 1
          /\ pc' = "return"
          /\ trace' = Append(trace, "cursor")
          /\ UNCHANGED <<op, bucket_name, df, creds, bucketLocals, dsn, conn,
                         engineLocals, result, raised, file, returned, ncalls>>

\* 'oracle+cx_oracle://' + ':'.join([user, passwd]) + '@' + host + '/' + sid
\* variant: the port is written into the string
EngineString_WithPort(c) ==
    <<"oracle+cx_oracle://">> \o c[1].s \o <<":">> \o c[2].s
        \o <<"@">> \o c[3].s \o <<":">> \o c[4].s \o <<"/">> \o c[5].s

\* c is (user, passwd, host, port, sid)
EngineString(c) ==
    <<"oracle+cx_oracle://">> \o c[1].s \o <<":">> \o c[2].s
        \o <<"@">> \o c[3].s \o <<"/">> \o c[5].s

\* str.join and str + accept str operands only
EngineStr ==
    /\ pc = "engine_str"
    /\ IF \E i \in {1, 2, 3, 5} : creds[i].t # "str"
       THEN Raise("engine_str", Err("TypeError", "str"))
       ELSE /\ engine_str' = Str(EngineString(creds))
            /\ pc' = "create_engine"
            /\ trace' = Append(trace, "engine_str")
            /\ UNCHANGED <<op, bucket_name, df, creds, bucketLocals, cursorLocals,
                           engine, result, raised, env>>

\* engine = sqlalchemy.create_engine(engine_str)
CreateEngine ==
    /\ pc = "create_engine"
    /\ \/ Raise("create_engine", Err("ArgumentError", "url"))
       \/ /\ engine' = NewObject("Engine", nextHandle, <<engine_str>>)
          /\ nextHandle' = nextHandle + 1
          /\ pc' = "return"
          /\ trace' = Append(trace, "create_engine")
          /\ UNCHANGED <<op, bucket_name, df, creds, bucketLocals, cursorLocals,
                         engine_str, result, raised, file, returned, ncalls>>

\* the value named by the function's return statement
ReturnValue ==
    CASE op \in Extractors -> creds
      [] op = "return_bucket" -> bucket
      [] op = "return_cursor" -> cursor
      [] op = "sql_alchemy_engine" -> engine

ReturnStmt ==
    /\ pc = "return"
    /\ result' = Return(ReturnValue)
    /\ pc' = "done"
    /\ FreshFrame
    /\ UNCHANGED <<op, bucket_name, trace, raised, env>>

\* the caller takes the result and goes on
Resume ==
    /\ pc = "done"
    /\ pc' = "idle"
    /\ returned' = IF result.t = "return" /\ op \in Resolvers
                   THEN returned \cup {result.v.id} ELSE returned
    /\ result' = NoResult
    /\ trace' = <<>>
    /\ raised' = NoRaise
    /\ op' = "-"
    /\ bucket_name' = "-"
    /\ UNCHANGED <<locals, file, nextHandle, ncalls>>

\* the operator of the file rewrites one field of its first data row
SetField(f, j, text) ==
    [f EXCEPT !.rows = [r \in 1..Len(f.rows) |->
                          IF r = 1 THEN [f.rows[1] EXCEPT ![j] = text]
                          ELSE f.rows[r]]]

Rotate ==
    /\ pc = "idle"
    /\ file.exists /\ Len(file.rows) >= 1
    /\ \E j \in 1..Len(file.header) :
          \E text \in FieldTexts \cup {DefaultText(file.header[j])} :
             /\ file' = SetField(file, j, text)
             /\ file' # file
             /\ file' \in Files
    /\ UNCHANGED <<pc, op, bucket_name, locals, result, trace, raised,
                   nextHandle, returned, ncalls>>

Next ==
    \/ Call
    \/ ReadCsv
    \/ Extract
    \/ CallingFormat
    \/ ConnectS3
    \/ GetBucket
    \/ MakeDsn
    \/ Connect
    \/ Cursor
    \/ EngineStr
    \/ CreateEngine
    \/ ReturnStmt
    \/ Resume
    \/ Rotate

Spec == Init /\ [][Next]_vars

(***************************************************************************)
(* Properties.  The file is not rewritten while a call runs, so at         *)
(* pc = "done" the variable file is the file the call read.                *)
(***************************************************************************)
Last(q) == q[Len(q)]
Count(q, x) == Cardinality({i \in 1..Len(q) : q[i] = x})

HasAll(f, cols) == \A i \in 1..Len(cols) : cols[i] \in Range(f.header)
Missing(f, cols) == {i \in 1..Len(cols) : cols[i] \notin Range(f.header)}
FirstMissing(f, cols) ==
    cols[CHOOSE i \in Missing(f, cols) : \A j \in Missing(f, cols) : i <= j]

\* the text written in the first data row under a column
FieldText(f, col) == f.rows[1][IndexOf(f.header, col)]
LiteralRow(f, cols) == [i \in 1..Len(cols) |-> Str(FieldText(f, cols[i]))]

\* the file cut down to its first data row
FirstRowOnly(f) == [f EXCEPT !.rows = <<f.rows[1]>>]

\* calls into boto, cx_Oracle and sqlalchemy
LibrarySteps ==
    {"OrdinaryCallingFormat", "connect_s3", "get_bucket", "makedsn", "connect",
     "cursor", "create_engine"}
LibraryCalls(q) == SelectSeq(q, LAMBDA x : x \in LibrarySteps)

LibrarySequence(o) ==
    CASE o = "return_bucket" -> <<"OrdinaryCallingFormat", "connect_s3", "get_bucket">>
      [] o = "return_cursor" -> <<"makedsn", "connect", "cursor">>
      [] o = "sql_alchemy_engine" -> <<"create_engine">>
      [] OTHER -> <<>>

IsPrefix(a, b) == Len(a) <= Len(b) /\ a = SubSeq(b, 1, Len(a))

\* C1: for a file with all required columns and at least one data row,
\* return_aws_keys and return_rds_vars return the tuple of the first data row,
\* in column order, every value the literal text of the file.
C1_ReturnsLiteralFirstRow ==
    (/\ pc = "done" /\ op \in Extractors
     /\ file.exists /\ HasAll(file, ColumnsOf(op)) /\ Len(file.rows) >= 1)
    => result = Return(LiteralRow(file, ColumnsOf(op)))

\* C2 as stated: with a required column absent from the file, every operation
\* ends in the field-not-found error (KeyError on a column name).
C2_AlwaysFieldNotFound ==
    (pc = "done" /\ file.exists /\ ~HasAll(file, ColumnsOf(op)))
    => (/\ result.t = "raise"
        /\ result.e.e = "KeyError"
        /\ result.e.arg \in Range(ColumnsOf(op)))

\* C2 amended: with a required column absent, no operation returns a value;
\* the error is KeyError on the first absent column whenever the file has a
\* data row or that column is the first one the operation reads.
C2_FieldNotFound ==
    (pc = "done" /\ file.exists /\ ~HasAll(file, ColumnsOf(op)))
    => (/\ result.t = "raise"
        /\ (Len(file.rows) >= 1 \/ 1 \in Missing(file, ColumnsOf(op)))
              => result = [t |-> "raise",
                           e |-> [e |-> "KeyError",
                                  arg |-> FirstMissing(file, ColumnsOf(op))],
                           v |-> None])

C2_Witness ==
    /\ pc = "done" /\ op = "return_cursor" /\ file.exists
    /\ Len(file.rows) >= 1
    /\ "DB_PORT" \notin Range(file.header)
    /\ result.t = "raise" /\ result.e.arg = "DB_PORT"

\* C3: with no file at the path, each of the five operations ends in the
\* file-access error, returns nothing, and has made no library call but read_csv.
C3_NoFileIsFileAccessError ==
    (~file.exists /\ pc # "idle")
    => (/\ LibraryCalls(trace) = <<>>
        /\ pc \in {"read_csv", "done"}
        /\ pc = "done" => (/\ result = [t |-> "raise",
                                        e |-> [e |-> "IOError", arg |-> "creds_path"],
                                        v |-> None]
                           /\ trace = <<"read_csv">>))

C3_Witness ==
    /\ ~file.exists /\ pc = "done" /\ op = "sql_alchemy_engine"
    /\ result.t = "raise" /\ ncalls = MaxCalls

\* C4: in return_bucket, return_cursor and sql_alchemy_engine every library
\* call comes after the file was read and the credentials extracted, and with
\* no file, a required column absent or no data row, no library call is made.
C4_ParseThenConnect ==
    /\ \A i \in 1..Len(trace) :
          trace[i] \in LibrarySteps
          => (/\ i > 2 /\ trace[1] = "read_csv" /\ trace[2] = "extract"
              /\ ~(raised.at \in {"read_csv", "extract"}))
    /\ (pc # "idle" /\ (\/ ~file.exists
                        \/ ~HasAll(file, ColumnsOf(op))
                        \/ Len(file.rows) = 0))
          => LibraryCalls(trace) = <<>>
    /\ raised.at \in {"read_csv", "extract"} => LibraryCalls(trace) = <<>>

C4_Witness ==
    /\ pc = "done" /\ op = "return_bucket" /\ raised.at = "extract"
    /\ file.exists /\ Len(file.rows) = 0

\* C5: the values return_aws_keys and return_rds_vars return are those they
\* return for the file cut down to its first data row.
C5_OnlyFirstRowMatters ==
    (pc = "done" /\ op \in Extractors /\ result.t = "return")
    => \A rowErr \in RowErrors :
          result.v = FirstRow(Lookups(read_csv(FirstRowOnly(file)),
                                      ColumnsOf(op), rowErr))

\* C6: a resolver that returns has read the file in this call, returns a
\* handle no earlier call returned, and the handle was opened with the
\* credentials now in the file.
C6_IndependentCalls ==
    (pc = "done" /\ op \in Resolvers /\ result.t = "return")
    => (/\ Count(trace, "read_csv") = 1 /\ trace[1] = "read_csv"
        /\ LibraryCalls(trace) = LibrarySequence(op)
        /\ result.v.id \notin returned
        /\ \A rowErr \in RowErrors :
              LET now == FirstRow(Lookups(read_csv(file), ColumnsOf(op), rowErr))
              IN  CASE op = "return_bucket" -> result.v.args = now
                    [] op = "return_cursor" -> result.v.args = now
                    [] op = "sql_alchemy_engine" ->
                          result.v.args[1].s =
                             <<"oracle+cx_oracle://">> \o now[1].s \o <<":">>
                                \o now[2].s \o <<"@">> \o now[3].s \o <<"/">>
                                \o now[5].s)

C6_Witness ==
    /\ pc = "done" /\ op = "return_cursor" /\ result.t = "return"
    /\ returned # {} /\ ncalls = 2

\* C7: the first statement that raises ends the call: the caller gets that
\* exception, nothing runs after it, no statement runs twice, and a call that
\* returns a value has raised nothing.
C7_FailFast ==
    /\ raised # NoRaise
          => (/\ pc = "done"
              /\ result = [t |-> "raise", e |-> raised.err, v |-> None]
              /\ Last(trace) = raised.at
              /\ \A i \in 1..(Len(trace) - 1) : trace[i] # raised.at)
    /\ \A i, j \in 1..Len(trace) : trace[i] = trace[j] => i = j
    /\ (pc = "done" /\ result.t = "return") => raised = NoRaise
    /\ pc = "done" => result.t \in {"return", "raise"}

C7_Witness ==
    /\ pc = "done" /\ op = "return_bucket"
    /\ raised = [err |-> [e |-> "S3ResponseError", arg |-> "b1"], at |-> "get_bucket"]
    /\ result.t = "raise"

\* C8: for a file whose DB_PORT field is a digit string, the port
\* return_rds_vars returns, and the port return_cursor gives to makedsn, is
\* that string.
C8_PortIsText ==
    (/\ file.exists /\ HasAll(file, RdsColumns) /\ Len(file.rows) >= 1
     /\ IsDigitString(FieldText(file, "DB_PORT")))
    => (/\ (pc = "done" /\ op = "return_rds_vars" /\ result.t = "return")
              => result.v[4] = Str(FieldText(file, "DB_PORT"))
        /\ (op = "return_cursor" /\ dsn # None)
              => dsn.port = Str(FieldText(file, "DB_PORT")))

\* C9 as stated: no resolver reads the file more than once or makes more
\* than one library call.
C9_OneLibraryCall ==
    op \in Resolvers
    => (Count(trace, "read_csv") <= 1 /\ Len(LibraryCalls(trace)) <= 1)

\* C9 amended: every operation reads the file exactly once, first; the
\* library calls of a call are a prefix of its sequence (three calls for
\* return_bucket and return_cursor, one for sql_alchemy_engine, none for the
\* extractors) and the whole sequence when the call returns a value.
C9_OneReadThenLibrarySequence ==
    pc \notin {"idle", "read_csv"}
    => (/\ Count(trace, "read_csv") = 1 /\ trace[1] = "read_csv"
        /\ IsPrefix(LibraryCalls(trace), LibrarySequence(op))
        /\ (pc = "done" /\ result.t = "return")
              => LibraryCalls(trace) = LibrarySequence(op))

C9_Witness ==
    /\ pc = "done" /\ op = "return_bucket" /\ result.t = "return"
    /\ Len(LibraryCalls(trace)) = 3

\* C10: the string sql_alchemy_engine gives to create_engine is
\* 'oracle+cx_oracle://' user ':' passwd '@' host '/' sid with the texts of
\* the first data row, whatever the port.
C10_EngineString ==
    (op = "sql_alchemy_engine" /\ "create_engine" \in Range(trace))
    => (/\ \A c \in {"DB_USER", "DB_PASSWD", "DB_HOST", "DB_SID"} :
              FieldText(file, c) # <<>>
        /\ LET url == <<"oracle+cx_oracle://">> \o FieldText(file, "DB_USER")
                        \o <<":">> \o FieldText(file, "DB_PASSWD")
                        \o <<"@">> \o FieldText(file, "DB_HOST")
                        \o <<"/">> \o FieldText(file, "DB_SID")
           IN  /\ pc = "return" => engine.args = <<Str(url)>>
               /\ (pc = "done" /\ result.t = "return")
                     => result.v.args = <<Str(url)>>)

C10_Witness ==
    /\ op = "sql_alchemy_engine" /\ pc = "done" /\ result.t = "return"
    /\ FieldText(file, "DB_PORT") = <<"0", "7">>
    /\ Len(result.v.args[1].s) = 8

====
